---- MODULE Spec2Model ----
(***************************************************************************)
(* Quadrature routines of docs/08/notes.ipynb: RiemannSum, trapezoidal,    *)
(* simpson and bode.                                                       *)
(*                                                                         *)
(* Numbers are exact rationals <<n, d>> in lowest terms with d > 0 (the    *)
(* reals that the Python floats approximate); <<0, 0>> is numpy's nan.     *)
(* An integrand f is a polynomial, given by its coefficients <<c0, c1,     *)
(* ...>>; a Python string is the sequence of its characters, so t[0] in    *)
(* the code is t[1] here; numpy arrays and Python lists are sequences      *)
(* (index i in the code is i + 1 here).                                    *)
(***************************************************************************)
EXTENDS Integers, Sequences, FiniteSets, TLC

VARIABLES f, N, a, b, pc, rule, t, exc, ret, X, D

vars == <<f, N, a, b, pc, rule, t, exc, ret, X, D>>

----------------------------------------------------------------------------
(* Bounds of the model *)

MaxN == 8
MaxDeg == 5

----------------------------------------------------------------------------
(* Exact arithmetic *)

Abs(n) == IF n < 0 THEN -n ELSE n

RECURSIVE Gcd(_, _)
Gcd(m, n) == IF n = 0 THEN Abs(m) ELSE Gcd(Abs(n), Abs(m) % Abs(n))

NaN == <<0, 0>>

\* what ret holds when the call returned nothing (it raised, or has not run)
None == <<0, -1>>

IsNaN(x) == x[2] = 0

\* n / d in lowest terms, d # 0
Rat(n, d) ==
    LET g == Gcd(n, d)
    IN  IF d < 0 THEN <<(-n) \div g, (-d) \div g>> ELSE <<n \div g, d \div g>>

RInt(k) == <<k, 1>>

RAdd(x, y) ==
    IF IsNaN(x) \/ IsNaN(y) THEN NaN
    ELSE LET g == Gcd(x[2], y[2])
             l == (x[2] \div g) * y[2]
         IN  Rat(x[1] * (l \div x[2]) + y[1] * (l \div y[2]), l)

RNeg(x) == <<-x[1], x[2]>>

RSub(x, y) == RAdd(x, RNeg(y))

RMul(x, y) ==
    IF IsNaN(x) \/ IsNaN(y) THEN NaN
    ELSE LET g1 == Gcd(x[1], y[2])
             g2 == Gcd(y[1], x[2])
         IN  IF x[1] = 0 \/ y[1] = 0 THEN <<0, 1>>
             ELSE <<(x[1] \div g1) * (y[1] \div g2), (x[2] \div g2) * (y[2] \div g1)>>

\* x / y for y # 0 (Python raises ZeroDivisionError on y = 0, see the callers)
RDiv(x, y) ==
    IF IsNaN(x) \/ IsNaN(y) THEN NaN
    ELSE RMul(x, Rat(y[2], y[1]))

Half == <<1, 2>>

----------------------------------------------------------------------------
(* Integrands: f(x) = c0 + c1*x + ... + ck*x^k, evaluated by Horner's rule *)

RECURSIVE Horner(_, _, _)
Horner(c, k, x) ==
    IF k > Len(c) THEN <<0, 1>>
    ELSE RAdd(RInt(c[k]), RMul(x, Horner(c, k + 1, x)))

\* f(x) for a scalar x
Call(c, x) == Horner(c, 1, x)

\* f(X) for an array X: numpy applies f elementwise
CallArray(c, A) == [i \in 1..Len(A) |-> Call(c, A[i])]

\* np.sum(A)
RECURSIVE SumUpTo(_, _)
SumUpTo(A, k) == IF k = 0 THEN <<0, 1>> ELSE RAdd(SumUpTo(A, k - 1), A[k])

NpSum(A) == SumUpTo(A, Len(A))

\* A + B for two arrays of the same length
ArrayAdd(A, B) == [i \in 1..Len(A) |-> RAdd(A[i], B[i])]

\* range(n) as the sequence 0, 1, ..., n-1 (empty for n <= 0)
Range(n) == [i \in 1..(IF n > 0 THEN n ELSE 0) |-> i - 1]

----------------------------------------------------------------------------
(* numpy.linspace(start, stop, num, retstep=True), endpoint=True:          *)
(* num < 0 raises ValueError; div = num - 1; for div > 0 the step is       *)
(* (stop - start) / div and the samples are start + i * step with the last *)
(* one set to stop; for div <= 0 the step is nan and the samples are       *)
(* start + i * (stop - start), i < num.                                    *)

LinspaceStep(start, stop, num) ==
    IF num - 1 > 0 THEN RDiv(RSub(stop, start), RInt(num - 1)) ELSE NaN

LinspaceSamples(start, stop, num) ==
    LET delta == RSub(stop, start)
        step  == LinspaceStep(start, stop, num)
        mult  == IF num - 1 > 0 THEN step ELSE delta
    IN  [i \in 1..num |->
            IF num > 1 /\ i = num THEN stop
            ELSE RAdd(RMul(RInt(i - 1), mult), start)]

linspace(start, stop, num) ==
    IF num < 0
    THEN [exc |-> "ValueError", X |-> <<>>, D |-> NaN]
    ELSE [exc |-> "",
          X   |-> LinspaceSamples(start, stop, num),
          D   |-> LinspaceStep(start, stop, num)]

Raise(e, grid) == [exc |-> e, ret |-> None, X |-> grid.X, D |-> grid.D]

Return(v, grid) == [exc |-> "", ret |-> v, X |-> grid.X, D |-> grid.D]

----------------------------------------------------------------------------
(* def RiemannSum(f, N=8, a=0, b=1, t='mid') *)

\* D = (b - a) / N, for N # 0
RiemannStep(pa, pb, n) == RDiv(RSub(RInt(pb), RInt(pa)), RInt(n))

\* mutant: the middle sum samples at D * i + a, the 0.5 offset forgotten
RiemannPoints_NoOffset(n, pa, pb, pt) ==
    LET step == RiemannStep(pa, pb, n)
        R    == Range(n)
    IN  IF pt[1] = "r"
        THEN [k \in 1..Len(R) |-> RAdd(RMul(step, RInt(R[k] + 1)), RInt(pa))]
        ELSE [k \in 1..Len(R) |-> RAdd(RMul(step, RInt(R[k])), RInt(pa))]

\* mutant: the right sum samples at D * i + a, the left sum's points
RiemannPoints_RightAsLeft(n, pa, pb, pt) ==
    LET step == RiemannStep(pa, pb, n)
        R    == Range(n)
    IN  IF pt[1] = "l" \/ pt[1] = "r"
        THEN [k \in 1..Len(R) |-> RAdd(RMul(step, RInt(R[k])), RInt(pa))]
        ELSE [k \in 1..Len(R) |-> RAdd(RMul(step, RAdd(RInt(R[k]), Half)), RInt(pa))]

\* mutant: t compared as a whole, t == 'left' and t == 'right'
RiemannPoints_WholeString(n, pa, pb, pt) ==
    LET step == RiemannStep(pa, pb, n)
        R    == Range(n)
    IN  IF pt = <<"l", "e", "f", "t">>
        THEN [k \in 1..Len(R) |-> RAdd(RMul(step, RInt(R[k])), RInt(pa))]
        ELSE IF pt = <<"r", "i", "g", "h", "t">>
        THEN [k \in 1..Len(R) |-> RAdd(RMul(step, RInt(R[k] + 1)), RInt(pa))]
        ELSE [k \in 1..Len(R) |-> RAdd(RMul(step, RAdd(RInt(R[k]), Half)), RInt(pa))]

\* the list X chosen by t[0]
RiemannPoints(n, pa, pb, pt) ==
    LET step == RiemannStep(pa, pb, n)
        R    == Range(n)
    IN  IF pt[1] = "l"
        THEN [k \in 1..Len(R) |-> RAdd(RMul(step, RInt(R[k])), RInt(pa))]
        ELSE IF pt[1] = "r"
        THEN [k \in 1..Len(R) |-> RAdd(RMul(step, RInt(R[k] + 1)), RInt(pa))]
        ELSE [k \in 1..Len(R) |-> RAdd(RMul(step, RAdd(RInt(R[k]), Half)), RInt(pa))]

\* mutant: returns np.sum(f(np.array(X))), the factor D forgotten
RiemannSum_NoStep(pf, n, pa, pb, pt) ==
    IF n = 0
    THEN Raise("ZeroDivisionError", [X |-> <<>>, D |-> None])
    ELSE IF Len(pt) = 0
    THEN Raise("IndexError", [X |-> <<>>, D |-> RiemannStep(pa, pb, n)])
    ELSE LET grid == [X |-> RiemannPoints(n, pa, pb, pt),
                      D |-> RiemannStep(pa, pb, n)]
         IN  Return(NpSum(CallArray(pf, grid.X)), grid)

RiemannSum(pf, n, pa, pb, pt) ==
    IF n = 0
    THEN Raise("ZeroDivisionError", [X |-> <<>>, D |-> None])
    ELSE IF Len(pt) = 0
    THEN Raise("IndexError", [X |-> <<>>, D |-> RiemannStep(pa, pb, n)])
    ELSE LET grid == [X |-> RiemannPoints(n, pa, pb, pt),
                      D |-> RiemannStep(pa, pb, n)]
         IN  Return(RMul(NpSum(CallArray(pf, grid.X)), grid.D), grid)

----------------------------------------------------------------------------
(* def trapezoidal(f, N=8, a=0, b=1) *)

\* X[1:] and X[:-1]
Tail1(A) == [i \in 1..(IF Len(A) > 0 THEN Len(A) - 1 ELSE 0) |-> A[i + 1]]

Front1(A) == [i \in 1..(IF Len(A) > 0 THEN Len(A) - 1 ELSE 0) |-> A[i]]

\* mutant: np.sum(f(X[:-1]) + f(X[:-1])) * 0.5 * D, the same slice twice
TrapezoidalValue_SameSlice(pf, grid) ==
    RMul(RMul(NpSum(ArrayAdd(CallArray(pf, Front1(grid.X)),
                             CallArray(pf, Front1(grid.X)))),
              Half),
         grid.D)

\* mutant: np.sum(f(X[1:]) + f(X[:-1])) * D, the factor 0.5 forgotten
TrapezoidalValue_NoHalf(pf, grid) ==
    RMul(NpSum(ArrayAdd(CallArray(pf, Tail1(grid.X)),
                        CallArray(pf, Front1(grid.X)))),
         grid.D)

TrapezoidalValue(pf, grid) ==
    RMul(RMul(NpSum(ArrayAdd(CallArray(pf, Tail1(grid.X)),
                             CallArray(pf, Front1(grid.X)))),
              Half),
         grid.D)

\* mutant: np.linspace(a, b, N), one sample short
trapezoidal_NPoints(pf, n, pa, pb) ==
    LET grid == linspace(RInt(pa), RInt(pb), n)
    IN  IF grid.exc # "" THEN Raise(grid.exc, grid)
        ELSE Return(TrapezoidalValue(pf, grid), grid)

trapezoidal(pf, n, pa, pb) ==
    LET grid == linspace(RInt(pa), RInt(pb), n + 1)
    IN  IF grid.exc # "" THEN Raise(grid.exc, grid)
        ELSE Return(TrapezoidalValue(pf, grid), grid)

----------------------------------------------------------------------------
(* def simpson(f, N=8, a=0, b=1) *)

\* the points l, m, r of the pair i (0-based): X[2 * i], X[2 * i + 1], X[2 * i + 2]
SimpsonPair(grid, i) == <<grid.X[2 * i + 1], grid.X[2 * i + 2], grid.X[2 * i + 3]>>

\* mutant: D * (f(l) + 2 * f(m) + f(r)) / 3
SimpsonTerm_Weight2(pf, grid, i) ==
    LET l == grid.X[2 * i + 1]
        m == grid.X[2 * i + 2]
        r == grid.X[2 * i + 3]
    IN  RDiv(RMul(grid.D,
                  RAdd(RAdd(Call(pf, l), RMul(RInt(2), Call(pf, m))), Call(pf, r))),
             RInt(3))

\* D * (f(l) + 4 * f(m) + f(r)) / 3 for the pair i (0-based)
SimpsonTerm(pf, grid, i) ==
    LET l == SimpsonPair(grid, i)[1]
        m == SimpsonPair(grid, i)[2]
        r == SimpsonPair(grid, i)[3]
    IN  RDiv(RMul(grid.D,
                  RAdd(RAdd(Call(pf, l), RMul(RInt(4), Call(pf, m))), Call(pf, r))),
             RInt(3))

\* S after the first k iterations of: for i in range(N // 2)
RECURSIVE SimpsonLoop(_, _, _)
SimpsonLoop(pf, grid, k) ==
    IF k <= 0 THEN <<0, 1>>
    ELSE RAdd(SimpsonLoop(pf, grid, k - 1), SimpsonTerm(pf, grid, k - 1))

\* mutant: for i in range(N // 2 - 1), the last pair left out
SimpsonCount_OneShort(n) == n \div 2 - 1

SimpsonCount(n) == n \div 2

simpson(pf, n, pa, pb) ==
    LET grid == linspace(RInt(pa), RInt(pb), n + 1)
    IN  IF grid.exc # "" THEN Raise(grid.exc, grid)
        ELSE Return(SimpsonLoop(pf, grid, SimpsonCount(n)), grid)

----------------------------------------------------------------------------
(* def bode(f, N=8, a=0, b=1) *)

\* mutant: the middle weight 12 of Boole's 2h/45 (7, 32, 12, 32, 7) left undoubled
BodeTerm_Weight12(pf, grid, i) ==
    LET x0 == grid.X[4 * i + 1]
        x1 == grid.X[4 * i + 2]
        x2 == grid.X[4 * i + 3]
        x3 == grid.X[4 * i + 4]
        x4 == grid.X[4 * i + 5]
    IN  RDiv(RMul(grid.D,
                  RAdd(RAdd(RAdd(RAdd(RMul(RInt(14), Call(pf, x0)),
                                      RMul(RInt(64), Call(pf, x1))),
                                 RMul(RInt(12), Call(pf, x2))),
                            RMul(RInt(64), Call(pf, x3))),
                       RMul(RInt(14), Call(pf, x4)))),
             RInt(45))

\* D * (14 f(x0) + 64 f(x1) + 24 f(x2) + 64 f(x3) + 14 f(x4)) / 45
BodeTerm(pf, grid, i) ==
    LET x0 == grid.X[4 * i + 1]
        x1 == grid.X[4 * i + 2]
        x2 == grid.X[4 * i + 3]
        x3 == grid.X[4 * i + 4]
        x4 == grid.X[4 * i + 5]
    IN  RDiv(RMul(grid.D,
                  RAdd(RAdd(RAdd(RAdd(RMul(RInt(14), Call(pf, x0)),
                                      RMul(RInt(64), Call(pf, x1))),
                                 RMul(RInt(24), Call(pf, x2))),
                            RMul(RInt(64), Call(pf, x3))),
                       RMul(RInt(14), Call(pf, x4)))),
             RInt(45))

\* S after the first k iterations of: for i in range(N // 4)
RECURSIVE BodeLoop(_, _, _)
BodeLoop(pf, grid, k) ==
    IF k <= 0 THEN <<0, 1>>
    ELSE RAdd(BodeLoop(pf, grid, k - 1), BodeTerm(pf, grid, k - 1))

BodeCount(n) == n \div 4

bode(pf, n, pa, pb) ==
    LET grid == linspace(RInt(pa), RInt(pb), n + 1)
    IN  IF grid.exc # "" THEN Raise(grid.exc, grid)
        ELSE Return(BodeLoop(pf, grid, BodeCount(n)), grid)

----------------------------------------------------------------------------
(* The calls a caller can make *)

\* coefficients of an integrand
Coefs == {-1, 0, 1}

\* polynomials of degree <= MaxDeg with at most two non-zero coefficients
Integrands ==
    { c \in [1..(MaxDeg + 1) -> Coefs] :
        Cardinality({k \in 1..(MaxDeg + 1) : c[k] # 0}) <= 2 }

\* interval bounds a, b: within [-1, 1], where the powers of the sample points
\* stay within TLC's 32-bit integers
Endpoints == {-1, 0, 1}

\* subdivision counts N, the invalid ones N <= 0 included
Counts == (-2)..MaxN

\* the strings 'left', 'right' and 'mid' (the default of t)
Left == <<"l", "e", "f", "t">>

Right == <<"r", "i", "g", "h", "t">>

Mid == <<"m", "i", "d">>

\* the abbreviations 'l', 'r', 'm' the notebook calls RiemannSum with
KindL == <<"l">>

KindR == <<"r">>

KindM == <<"m">>

\* other strings a caller can pass: 'middle', 'Left', 'x' and the empty string
Middle == <<"m", "i", "d", "d", "l", "e">>

CapitalLeft == <<"L", "e", "f", "t">>

Unrecognised == <<"x">>

Empty == <<>>

Kinds == {Left, Right, Mid, KindL, KindR, KindM, Middle, CapitalLeft, Unrecognised, Empty}

Init ==
    /\ f \in Integrands
    /\ N \in Counts
    /\ a \in Endpoints
    /\ b \in {e \in Endpoints : a <= e}
    /\ pc = "ready"
    /\ rule = ""
    /\ t = <<>>
    /\ exc = ""
    /\ ret = None
    /\ X = <<>>
    /\ D = None

Finish(r, kind, out) ==
    /\ pc' = "done"
    /\ rule' = r
    /\ t' = kind
    /\ exc' = out.exc
    /\ ret' = out.ret
    /\ X' = out.X
    /\ D' = out.D
    /\ UNCHANGED <<f, N, a, b>>

CallRiemannSum ==
    /\ pc = "ready"
    /\ \E kind \in Kinds : Finish("RiemannSum", kind, RiemannSum(f, N, a, b, kind))

CallTrapezoidal ==
    /\ pc = "ready"
    /\ Finish("trapezoidal", <<>>, trapezoidal(f, N, a, b))

CallSimpson ==
    /\ pc = "ready"
    /\ Finish("simpson", <<>>, simpson(f, N, a, b))

CallBode ==
    /\ pc = "ready"
    /\ Finish("bode", <<>>, bode(f, N, a, b))

Next == CallRiemannSum \/ CallTrapezoidal \/ CallSimpson \/ CallBode

Spec == Init /\ [][Next]_vars

----------------------------------------------------------------------------
(* What the claims are stated with *)

Returned == pc = "done" /\ exc = ""

Raised == pc = "done" /\ exc # ""

Zero == <<0, 1>>

\* degree of the polynomial c (0 for the zero polynomial)
Degree(c) ==
    LET nz == {k \in 1..Len(c) : c[k] # 0}
    IN  IF nz = {} THEN 0 ELSE (CHOOSE k \in nz : \A j \in nz : j <= k) - 1

RECURSIVE Pow(_, _)
Pow(x, k) == IF k = 0 THEN 1 ELSE x * Pow(x, k - 1)

\* the analytic integral of c over [lo, hi]: sum of c_k (hi^(k+1) - lo^(k+1)) / (k+1)
RECURSIVE IntegralUpTo(_, _, _, _)
IntegralUpTo(c, lo, hi, k) ==
    IF k = 0 THEN Zero
    ELSE RAdd(IntegralUpTo(c, lo, hi, k - 1),
              Rat(c[k] * (Pow(hi, k) - Pow(lo, k)), k))

Integral(c, lo, hi) == IntegralUpTo(c, lo, hi, Len(c))

----------------------------------------------------------------------------
(* C1: simpson called with an odd N >= 1 fails with an invalid-subdivision- *)
(* count error: it returns no numeric result.                              *)
C1_SimpsonOddFails ==
    (pc = "done" /\ rule = "simpson" /\ N >= 1 /\ N % 2 = 1) => Raised

(* C2: bode called with an N >= 1 that is not a multiple of 4 fails with   *)
(* an invalid-subdivision-count error: it returns no numeric result.       *)
C2_BodeNotMultipleOf4Fails ==
    (pc = "done" /\ rule = "bode" /\ N >= 1 /\ N % 4 # 0) => Raised

(* C3: for each of the four rules a call with N <= 0 is reported to the    *)
(* caller as a failure: no such call returns a value.                      *)
C3_NonPositiveCountFails ==
    (pc = "done" /\ N <= 0) => Raised

(* C4: trapezoidal is exact for affine integrands: for f of degree <= 1,   *)
(* a <= b and N >= 1 it returns the analytic integral of f over [a, b].    *)
C4_TrapezoidalExactAffine ==
    (pc = "done" /\ rule = "trapezoidal" /\ N >= 1 /\ Degree(f) <= 1)
        => (exc = "" /\ ret = Integral(f, a, b))

C4_Witness ==
    /\ Returned /\ rule = "trapezoidal" /\ N >= 2 /\ Degree(f) = 1 /\ a < b
    /\ ret = Integral(f, a, b) /\ ret # Zero

(* C5: simpson is exact for polynomials of degree <= 3: for every even     *)
(* N >= 2 and a <= b it returns the analytic integral of f over [a, b].    *)
C5_SimpsonExactCubic ==
    (pc = "done" /\ rule = "simpson" /\ N >= 2 /\ N % 2 = 0 /\ Degree(f) <= 3)
        => (exc = "" /\ ret = Integral(f, a, b))

C5_Witness ==
    /\ Returned /\ rule = "simpson" /\ N >= 4 /\ N % 2 = 0 /\ Degree(f) = 3
    /\ a < b /\ ret = Integral(f, a, b) /\ ret # Zero

(* C6: bode is exact for polynomials of degree <= 5: for every N >= 4 that *)
(* is a multiple of 4 and a <= b it returns the analytic integral of f     *)
(* over [a, b].                                                            *)
C6_BodeExactQuintic ==
    (pc = "done" /\ rule = "bode" /\ N >= 4 /\ N % 4 = 0 /\ Degree(f) <= 5)
        => (exc = "" /\ ret = Integral(f, a, b))

C6_Witness ==
    /\ Returned /\ rule = "bode" /\ N >= 8 /\ N % 4 = 0 /\ Degree(f) = 5
    /\ a < b /\ ret = Integral(f, a, b) /\ ret # Zero

(* C7: trapezoidal with N = 1 returns (b - a) / 2 * (f(a) + f(b)), for     *)
(* every f and every a <= b.                                               *)
C7_TrapezoidalOneInterval ==
    (pc = "done" /\ rule = "trapezoidal" /\ N = 1)
        => (exc = "" /\
            ret = RMul(Rat(b - a, 2), RAdd(Call(f, RInt(a)), Call(f, RInt(b)))))

C7_Witness ==
    /\ Returned /\ rule = "trapezoidal" /\ N = 1 /\ a < b /\ Degree(f) >= 2
    /\ ret # Zero /\ ret # Integral(f, a, b)

\* the i-th sample point (i = 0..N-1) the specification gives for a kind
ExpectedPoint(kind, i) ==
    IF kind = Left THEN Rat(a * N + i * (b - a), N)
    ELSE IF kind = Right THEN Rat(a * N + (i + 1) * (b - a), N)
    ELSE Rat(2 * a * N + (2 * i + 1) * (b - a), 2 * N)

\* f summed over the first k expected sample points
RECURSIVE ExpectedSum(_, _)
ExpectedSum(kind, k) ==
    IF k = 0 THEN Zero
    ELSE RAdd(ExpectedSum(kind, k - 1), Call(f, ExpectedPoint(kind, k - 1)))

(* C8: for N >= 1 and a <= b RiemannSum samples exactly N points, a + i*Dx *)
(* for kind left, a + (i+1)*Dx for right and a + (i+0.5)*Dx for middle,    *)
(* i = 0..N-1, with Dx = (b - a) / N, and returns Dx times the sum of f    *)
(* over them.                                                              *)
C8_RiemannSumPoints ==
    (pc = "done" /\ rule = "RiemannSum" /\ N >= 1 /\ t \in {Left, Right, Mid})
        => /\ exc = ""
           /\ D = Rat(b - a, N)
           /\ Len(X) = N
           /\ \A i \in 0..(N - 1) : X[i + 1] = ExpectedPoint(t, i)
           /\ ret = RMul(Rat(b - a, N), ExpectedSum(t, N))

C8_Witness ==
    /\ Returned /\ rule = "RiemannSum" /\ t = Mid /\ N >= 3 /\ a < b
    /\ Len(X) = N /\ X[1] = Rat(2 * a * N + (b - a), 2 * N) /\ ret # Zero

\* f(X_1) + ... + f(X_k) over the grid of the call
RECURSIVE GridSum(_)
GridSum(k) == IF k <= 0 THEN Zero ELSE RAdd(GridSum(k - 1), Call(f, X[k + 1]))

(* C9: what trapezoidal returns, (Dx/2) * sum of (f(X_i) + f(X_{i+1})),    *)
(* equals Dx * (f(X_0)/2 + f(X_1) + ... + f(X_{N-1}) + f(X_N)/2) for every *)
(* f, a <= b and N >= 1: weight 1/2 at the two endpoints, 1 inside.        *)
C9_TrapezoidalClosedForm ==
    (pc = "done" /\ rule = "trapezoidal" /\ N >= 1)
        => /\ exc = ""
           /\ Len(X) = N + 1
           /\ ret = RMul(D, RAdd(RAdd(RMul(Half, Call(f, X[1])), GridSum(N - 1)),
                                 RMul(Half, Call(f, X[N + 1]))))

C9_Witness ==
    /\ Returned /\ rule = "trapezoidal" /\ N >= 3 /\ a < b /\ Degree(f) >= 2
    /\ GridSum(N - 1) # Zero /\ Call(f, X[1]) # Zero /\ ret # Zero

\* the subdivision counts a rule accepts
ValidCount(r, n) ==
    IF r = "simpson" THEN n >= 2 /\ n % 2 = 0
    ELSE IF r = "bode" THEN n >= 4 /\ n % 4 = 0
    ELSE n >= 1

(* C10: a degenerate interval yields 0: every rule, called with a = b and  *)
(* a count valid for it (RiemannSum with any non-empty t, which selects a  *)
(* kind), returns 0 whatever f is.                                         *)
C10_DegenerateIntervalZero ==
    (pc = "done" /\ a = b /\ ValidCount(rule, N) /\ (rule = "RiemannSum" => Len(t) > 0))
        => (exc = "" /\ ret = Zero)

C10_Witness ==
    /\ Returned /\ a = b /\ rule = "bode" /\ ValidCount(rule, N)
    /\ Call(f, RInt(a)) # Zero /\ ret = Zero

\* the grid of the call, as the rules pass it on
Grid == [X |-> X, D |-> D]

\* f(X_1) + f(X_3) + ... over the first k odd indices of the grid
RECURSIVE OddSum(_)
OddSum(k) == IF k <= 0 THEN Zero ELSE RAdd(OddSum(k - 1), Call(f, X[2 * k]))

\* f(X_2) + f(X_4) + ... over the first k even interior indices of the grid
RECURSIVE EvenSum(_)
EvenSum(k) == IF k <= 0 THEN Zero ELSE RAdd(EvenSum(k - 1), Call(f, X[2 * k + 1]))

(* C12: for every even N >= 2 simpson visits N/2 consecutive pairs         *)
(* (X[2i], X[2i+1], X[2i+2]), i = 0..N/2-1, each two sub-intervals of      *)
(* width Dx, the first starting at a, each next one starting where the     *)
(* previous ends, the last ending at b (no gap, no overlap), and returns   *)
(* (Dx/3) * (f(X_0) + 4 * sum of f at odd indices + 2 * sum of f at        *)
(* interior even indices + f(X_N)).                                        *)
C12_SimpsonPairs ==
    (pc = "done" /\ rule = "simpson" /\ N >= 2 /\ N % 2 = 0)
        => LET K == SimpsonCount(N)
           IN  /\ exc = ""
               /\ 2 * K = N
               /\ Len(X) = N + 1
               /\ D = Rat(b - a, N)
               /\ SimpsonPair(Grid, 0)[1] = RInt(a)
               /\ SimpsonPair(Grid, K - 1)[3] = RInt(b)
               /\ \A i \in 0..(K - 2) :
                      SimpsonPair(Grid, i)[3] = SimpsonPair(Grid, i + 1)[1]
               /\ \A i \in 0..(K - 1) :
                      /\ RSub(SimpsonPair(Grid, i)[2], SimpsonPair(Grid, i)[1]) = D
                      /\ RSub(SimpsonPair(Grid, i)[3], SimpsonPair(Grid, i)[2]) = D
               /\ ret = RMul(RDiv(D, RInt(3)),
                             RAdd(RAdd(RAdd(Call(f, X[1]),
                                            RMul(RInt(4), OddSum(K))),
                                       RMul(RInt(2), EvenSum(K - 1))),
                                  Call(f, X[N + 1])))

C12_Witness ==
    /\ Returned /\ rule = "simpson" /\ N >= 6 /\ N % 2 = 0 /\ a < b
    /\ Degree(f) >= 4 /\ SimpsonPair(Grid, 2)[1] = SimpsonPair(Grid, 1)[3]
    /\ EvenSum(SimpsonCount(N) - 1) # Zero /\ ret # Zero /\ ret # Integral(f, a, b)

\* the kind the first character of a non-empty string s stands for
SelectedKind(s) ==
    IF s[1] = "l" THEN Left ELSE IF s[1] = "r" THEN Right ELSE Mid

\* the call returned the sum of the kind the first character of t selects
KindSelected ==
    /\ exc = ""
    /\ X = [i \in 1..N |-> ExpectedPoint(SelectedKind(t), i - 1)]
    /\ ret = RMul(Rat(b - a, N), ExpectedSum(SelectedKind(t), N))

(* C13 as stated: RiemannSum selects the kind from the first character of  *)
(* t only ('l' left, 'r' right, anything else middle) and rejects no value *)
(* of t.                                                                   *)
C13_NoKindRejected ==
    (pc = "done" /\ rule = "RiemannSum" /\ N >= 1) => KindSelected

(* C13 as amended: RiemannSum selects the kind from the first character of *)
(* a non-empty t only ('l' left, 'r' right, anything else middle) and      *)
(* rejects no non-empty value of t; the empty string fails with IndexError *)
(* at t[0].                                                                *)
C13_FirstCharacterSelects ==
    (pc = "done" /\ rule = "RiemannSum" /\ N >= 1)
        => IF Len(t) = 0 THEN exc = "IndexError" /\ ret = None ELSE KindSelected

C13_Witness ==
    /\ Returned /\ rule = "RiemannSum" /\ N >= 2 /\ a < b /\ t = CapitalLeft
    /\ X[1] = ExpectedPoint(Mid, 0) /\ X[1] # RInt(a) /\ ret # Zero

\* what RiemannSum returns for the inputs of the state and the kind s
RiemannValue(s) == RiemannSum(f, N, a, b, s).ret

(* C14: for every f, a <= b and N >= 1, trapezoidal(f, N, a, b) is the     *)
(* mean of RiemannSum(f, N, a, b, 'left') and RiemannSum(f, N, a, b,       *)
(* 'right'), and the right sum minus the left sum is Dx * (f(b) - f(a))    *)
(* with Dx = (b - a) / N.                                                  *)
C14_TrapezoidalMeanOfRiemann ==
    /\ (pc = "done" /\ rule = "trapezoidal" /\ N >= 1)
           => /\ exc = ""
              /\ ret = RMul(Half, RAdd(RiemannValue(Left), RiemannValue(Right)))
    /\ (pc = "done" /\ rule = "RiemannSum" /\ t = Right /\ N >= 1)
           => /\ exc = ""
              /\ RSub(ret, RiemannValue(Left))
                    = RMul(Rat(b - a, N), RSub(Call(f, RInt(b)), Call(f, RInt(a))))

C14_Witness ==
    /\ Returned /\ rule = "trapezoidal" /\ N >= 3 /\ a < b /\ Degree(f) >= 2
    /\ RiemannValue(Left) # RiemannValue(Right)
    /\ ret # RiemannValue(Left) /\ ret # RiemannValue(Mid)
    /\ ret = RMul(Half, RAdd(RiemannValue(Left), RiemannValue(Right)))

====
